---- MODULE Spec2Model ----
(***************************************************************************)
(* The annotation surface of react-image-positions: the ImageAnnotation    *)
(* component (src/src/components/ImageAnnotation.tsx, the variant with     *)
(* overlays, filename links and coordinate origins, lines 542-1408) and    *)
(* the position list it edits through onPositionsChange (App state,        *)
(* src/unnamed/part_000).                                                  *)
(*                                                                         *)
(* Numbers.  Client (screen) coordinates and panOffset are whole pixels.   *)
(* JavaScript numbers are doubles; image-space values (drawStart, the      *)
(* draft and the stored boxes) are kept here in fixed point, in            *)
(* thousandths of a pixel, and scale in thousandths, so that the division  *)
(* by scale in getImageCoordinates is carried out and not assumed away.    *)
(* A double keeps 53 significant bits; the numbers of the export keep      *)
(* MantissaBits significant bits of their count of thousandths, rounded    *)
(* to nearest, ties to even (fl), so that every value the pointer events   *)
(* produce is exact and a difference with an image dimension can be        *)
(* rounded, as it is for doubles.                                          *)
(*                                                                         *)
(* null / undefined.  The code tests optional fields by truthiness or by   *)
(* === against a string id only, so null and undefined are one value       *)
(* here: Null for points and the draft, 0 for ids, "null" for strings,     *)
(* and an absent showFileName is FALSE.                                    *)
(*                                                                         *)
(* React.  Every handler runs to completion on the state of the last       *)
(* render; the handlers one DOM event triggers (capture, then bubble) all  *)
(* read that same state, and their updates are applied together.  One      *)
(* action therefore models one DOM event.  The keyboard effect (the        *)
(* keydown listener on window) is re-run with the render a user event      *)
(* caused; after a render caused by a FileReader, Image or promise         *)
(* callback it is a passive effect that React may run in a later task.     *)
(*                                                                         *)
(* App.  The App (src/unnamed/part_000) owns imageUrl, the position list   *)
(* and the uploads; ImageAnnotation is mounted while imageUrl is non-null  *)
(* and takes its initial state whenever it mounts.                         *)
(***************************************************************************)
EXTENDS Integers, Sequences, FiniteSets, TLC

\* ---------------------------------------------------------------- bounds
\* Number of positions ever committed in a run (ids are 1..MaxIds).
MaxIds == 2
\* |panOffset.x|, |panOffset.y| stay within MaxPan pixels.
MaxPan == 5
\* Overlay file reads in flight at once.
MaxReaders == 1
\* Zoom In presses above 100% in the specification of the App.
MaxZoom == 1
\* Raster uploads of the App (FileReader and Image loads) in flight at once.
MaxUploads == 2
\* Significant bits a number of the export keeps (53 in a double).
MantissaBits == 15

\* The client points the pointer visits, relative to the container's
\* top-left corner.
PointerPts ==
    { [x |-> 5, y |-> 5], [x |-> 10, y |-> 10], [x |-> 20, y |-> 20],
      [x |-> 24, y |-> 30] }

\* The points of the specifications that pan or link.
PanPts == { [x |-> 5, y |-> 5], [x |-> 10, y |-> 10], [x |-> 20, y |-> 20] }

\* The two points of the specification of the App.
AppPts == { [x |-> 5, y |-> 5], [x |-> 20, y |-> 20] }

\* MouseEvent.button: 0 primary, 1 middle, 2 secondary.
Buttons == {0, 1, 2}

ShapeType == {"RECTANGLE", "CIRCLE", "TRAPEZOID"}

\* Names of the files offered to the overlay input.
FileNames == {"a.png", "b.png"}

\* The raster files and the PDF offered to the App's upload input.
ImageFiles == {"a.png", "b.png"}
PdfFiles == {"doc.pdf"}
ImageFormat == {"PNG", "JPEG"}

\* ------------------------------------------------------------- encodings
Null == << >>
Some(v) == << v >>

\* n pixels in image-space fixed point.
Px(n) == n * 1000

Min(a, b) == IF a <= b THEN a ELSE b
Max(a, b) == IF a >= b THEN a ELSE b
Abs(a) == IF a >= 0 THEN a ELSE 0 - a

\* The id of the draft ("temp" in the code); committed ids are 1, 2, ...
TempId == 0 - 1

VARIABLES
    positions,                    \* App: the committed list (prop positions)
    scale,                        \* thousandths
    panStart,                     \* Null or Some([x, y]), client pixels
    panOffset,                    \* [x, y], client pixels
    isDrawing,
    drawStart,                    \* Null or Some([x, y]), image space
    currentRect,                  \* Null or Some(draft)
    selectedPosition,             \* 0 or an id
    selectedShape,
    isSelectingFileNamePosition,
    pendingFileNameLinkId,        \* 0 or an id
    readers,                      \* overlay FileReaders in flight
    nextId,                       \* the next fresh id
    downTarget,                   \* browser: position element the primary press hit, or 0
    clickPending,                 \* browser: position element whose click event is due, or 0
    imageUrl,                     \* App: "null" or the image shown
    imageDimensions,              \* App: "null" or the file the dimensions are of
    showFormatModal,              \* App
    pendingPdfFile,               \* App: "null" or a PDF file
    isConverting,                 \* App
    imageReads,                   \* App: raster files being read and decoded
    conversions,                  \* App: PDF conversions in flight
    alertMessage,                 \* browser: the alert the last step raised, or "null"
    coordinateOrigin,             \* App
    databaseFormat,               \* browser: the entries the last step's alert listed
    keydownListeners              \* browser: the handleKeyDown closures registered on window

\* The App's own state and the browser objects it started.
appVars ==
    << imageUrl, imageDimensions, showFormatModal, pendingPdfFile, isConverting,
       imageReads, conversions, alertMessage, coordinateOrigin,
       databaseFormat >>

vars ==
    << positions, scale, panStart, panOffset, isDrawing, drawStart, currentRect,
       selectedPosition, selectedShape, isSelectingFileNamePosition,
       pendingFileNameLinkId, readers, nextId, downTarget, clickPending, imageUrl, imageDimensions, showFormatModal, pendingPdfFile,
       isConverting, imageReads, conversions, alertMessage, coordinateOrigin,
       databaseFormat, keydownListeners >>

\* ----------------------------------------------------------- pure helpers
Ids(ps) == { ps[i].id : i \in 1..Len(ps) }

\* positions.find((p) => p.id === id): the index of the entry, 0 if none.
IndexOfId(ps, id) ==
    LET is == { i \in 1..Len(ps) : ps[i].id = id }
    IN  IF is = {} THEN 0 ELSE CHOOSE i \in is : \A j \in is : i <= j

\* positions.filter((p) => p.id !== id)
RECURSIVE FilterOutId(_, _)
FilterOutId(ps, id) ==
    IF ps = << >> THEN << >>
    ELSE IF Head(ps).id # id
         THEN << Head(ps) >> \o FilterOutId(Tail(ps), id)
         ELSE FilterOutId(Tail(ps), id)

\* positions.map((pos) => pos.id === id ? { ...pos, ...fields } : pos)
MapId(ps, id, fields) ==
    [ i \in 1..Len(ps) |->
        IF ps[i].id = id
        THEN [ k \in DOMAIN ps[i] |->
                 IF k \in DOMAIN fields THEN fields[k] ELSE ps[i][k] ]
        ELSE ps[i] ]

\* Screen -> image: (client - imageRect.left) / scale, where the image's
\* bounding rectangle starts at the container's corner moved by panOffset.
getImageCoordinates(pt) ==
    [ x |-> ((pt.x - panOffset.x) * 1000 * 1000) \div scale,
      y |-> ((pt.y - panOffset.y) * 1000 * 1000) \div scale ]

\* The bounding-box test of handleMouseDown, edges inclusive.
HitTest(pos, c) ==
    /\ c.x >= pos.x
    /\ c.x <= pos.x + pos.width
    /\ c.y >= pos.y
    /\ c.y <= pos.y + pos.height

\* Mutant of clickedPosition: the last match instead of the first.
clickedPositionLast(ps, c) ==
    LET hits == { i \in 1..Len(ps) : HitTest(ps[i], c) }
    IN  IF hits = {} THEN 0 ELSE CHOOSE i \in hits : \A j \in hits : i >= j

\* positions.find(hit test): index of the clicked position, 0 if none.
clickedPosition(ps, c) ==
    LET hits == { i \in 1..Len(ps) : HitTest(ps[i], c) }
    IN  IF hits = {} THEN 0 ELSE CHOOSE i \in hits : \A j \in hits : i <= j

\* Mutant of DraftRect: the differences are taken without Math.abs.
DraftRectSigned(start, c, shape) ==
    [ id |-> TempId,
      x |-> Min(start.x, c.x),
      y |-> Min(start.y, c.y),
      width |-> c.x - start.x,
      height |-> c.y - start.y,
      shape |-> shape ]

\* The draft handleMouseMove builds from drawStart and the pointer.
DraftRect(start, c, shape) ==
    [ id |-> TempId,
      x |-> Min(start.x, c.x),
      y |-> Min(start.y, c.y),
      width |-> Abs(c.x - start.x),
      height |-> Abs(c.y - start.y),
      shape |-> shape ]

\* Mutant of MeaningfulSize: one axis over the threshold is enough.
MeaningfulSizeEitherAxis(r) == r.width > Px(5) \/ r.height > Px(5)

\* Mutant of MeaningfulSize: a side of exactly 5 is accepted.
MeaningfulSizeInclusive(r) == r.width >= Px(5) /\ r.height >= Px(5)

\* The size test of handleMouseUp.
MeaningfulSize(r) == r.width > Px(5) /\ r.height > Px(5)

\* The position handleMouseUp commits.
NewPosition(id, r, shape) ==
    [ id |-> id, x |-> r.x, y |-> r.y, width |-> r.width, height |-> r.height,
      shape |-> shape,
      overlayImage |-> "null", overlayFileName |-> "null",
      showFileName |-> FALSE, fileNamePositionId |-> 0 ]

\* getLinkedFileName: the filename some position displays inside positionId.
\* A lookup that takes the first position linked to positionId, with or
\* without a filename.
getLinkedFileNameFirstLinked(ps, positionId) ==
    LET ls == { i \in 1..Len(ps) :
                  ps[i].showFileName /\ ps[i].fileNamePositionId = positionId }
    IN  IF ls = {} THEN "null"
        ELSE ps[CHOOSE i \in ls : \A j \in ls : i <= j].overlayFileName

getLinkedFileName(ps, positionId) ==
    LET ls == { i \in 1..Len(ps) :
                  /\ ps[i].showFileName
                  /\ ps[i].fileNamePositionId = positionId
                  /\ ps[i].overlayFileName # "null" }
    IN  IF ls = {} THEN "null"
        ELSE ps[CHOOSE i \in ls : \A j \in ls : i <= j].overlayFileName

\* renderPosition: the link indicator is rendered on a position when
\* position.showFileName && position.fileNamePositionId.
linkIndicatorShown(pos) == pos.showFileName /\ pos.fileNamePositionId # 0

\* const selectedPositionObj = positions.find((p) => p.id === selectedPosition)
HasSelectedObj == IndexOfId(positions, selectedPosition) # 0
selectedPositionObj == positions[IndexOfId(positions, selectedPosition)]

\* ------------------------------------------------------------------ Init
\* The annotation surface just mounted on the image a.png: the App has
\* loaded the file and nothing is in flight.
Init ==
    /\ positions = << >>
    /\ scale = 1000
    /\ panStart = Null
    /\ panOffset = [x |-> 0, y |-> 0]
    /\ isDrawing = FALSE
    /\ drawStart = Null
    /\ currentRect = Null
    /\ selectedPosition = 0
    /\ selectedShape = "RECTANGLE"
    /\ isSelectingFileNamePosition = FALSE
    /\ pendingFileNameLinkId = 0
    /\ readers = {}
    /\ nextId = 1
    /\ downTarget = 0
    /\ clickPending = 0
    /\ imageUrl = "a.png"
    /\ imageDimensions = "a.png"
    /\ showFormatModal = FALSE
    /\ pendingPdfFile = "null"
    /\ isConverting = FALSE
    /\ imageReads = {}
    /\ conversions = {}
    /\ alertMessage = "null"
    /\ coordinateOrigin = "TOP_LEFT"
    /\ databaseFormat = << >>
    /\ keydownListeners = { [selectedPosition |-> 0, positions |-> << >>] }

\* --------------------------------------------------- handlers (fragments)
\* The keyboard effect, run after a render: the cleanup of the previous
\* run removes the listener it added, and, while the surface is mounted,
\* a handleKeyDown closed over this render's selectedPosition and
\* positions is added.
keyboardEffect ==
    keydownListeners' =
        IF imageUrl' # "null"
        THEN { [selectedPosition |-> selectedPosition', positions |-> positions'] }
        ELSE {}

\* The keyboard effect after a render that no user event caused (a
\* FileReader, Image or promise callback): React runs passive effects in
\* a later task, so the step ends with the effect run or still due.
keyboardEffectDeferred == keyboardEffect \/ UNCHANGED keydownListeners

\* handlePanStart: onMouseDownCapture of the image container.
\* A handlePanStart that anchors the pan at the pointer itself.
handlePanStartAtPointer(pt, button, ctrlKey) ==
    panStart' =
        IF button = 1 \/ (button = 0 /\ ctrlKey)
        THEN Some([x |-> pt.x, y |-> pt.y])
        ELSE panStart

handlePanStart(pt, button, ctrlKey) ==
    panStart' =
        IF button = 1 \/ (button = 0 /\ ctrlKey)
        THEN Some([x |-> pt.x - panOffset.x, y |-> pt.y - panOffset.y])
        ELSE panStart

\* handleMouseDown: onMouseDown of the image container.
handleMouseDown(pt, button) ==
    LET coords == getImageCoordinates(pt)
        hit == clickedPosition(positions, coords)
    IN  IF button # 0
        THEN UNCHANGED << isDrawing, drawStart, selectedPosition >>
        ELSE IF hit # 0
        THEN /\ selectedPosition' = positions[hit].id
             /\ UNCHANGED << isDrawing, drawStart >>
        ELSE /\ isDrawing' = TRUE
             /\ drawStart' = Some(coords)
             /\ selectedPosition' = 0

\* handlePanMove: onMouseMoveCapture.
handlePanMove(pt) ==
    panOffset' =
        IF panStart # Null
        THEN [x |-> pt.x - panStart[1].x, y |-> pt.y - panStart[1].y]
        ELSE panOffset

\* handleMouseMove: onMouseMove.
handleMouseMove(pt) ==
    currentRect' =
        IF isDrawing /\ drawStart # Null
        THEN Some(DraftRect(drawStart[1], getImageCoordinates(pt), selectedShape))
        ELSE currentRect

\* handlePanEnd: onMouseUpCapture.
handlePanEnd == panStart' = Null

\* A handleMouseUp that leaves the draft on the surface after the commit.
handleMouseUpKeepsDraft(id) ==
    IF isDrawing /\ currentRect # Null /\ drawStart # Null
    THEN /\ IF MeaningfulSize(currentRect[1])
            THEN /\ nextId <= MaxIds
                 /\ positions' =
                        Append(positions,
                               NewPosition(id, currentRect[1], selectedShape))
                 /\ nextId' = nextId + 1
            ELSE UNCHANGED << positions, nextId >>
         /\ isDrawing' = FALSE
         /\ drawStart' = Null
         /\ UNCHANGED currentRect
    ELSE UNCHANGED << positions, nextId, isDrawing, drawStart, currentRect >>

\* handleMouseUp: onMouseUp and onMouseLeave.  id is the value of
\* `pos-${Date.now()}-${Math.random()}`; nextId counts the commits.
handleMouseUpWithId(id) ==
    IF isDrawing /\ currentRect # Null /\ drawStart # Null
    THEN /\ IF MeaningfulSize(currentRect[1])
            THEN /\ nextId <= MaxIds
                 /\ positions' =
                        Append(positions,
                               NewPosition(id, currentRect[1], selectedShape))
                 /\ nextId' = nextId + 1
            ELSE UNCHANGED << positions, nextId >>
         /\ isDrawing' = FALSE
         /\ drawStart' = Null
         /\ currentRect' = Null
    ELSE UNCHANGED << positions, nextId, isDrawing, drawStart, currentRect >>

\* handleMouseUp when the clock and Math.random() give an id that no
\* position was given before: the ids are then 1, 2, ... in commit order.
handleMouseUp == handleMouseUpWithId(nextId)

\* Mutant of handlePositionClick: the link is given the pending id, not
\* the id of the position clicked.
handlePositionClickPendingId(positionId) ==
    IF isSelectingFileNamePosition /\ pendingFileNameLinkId # 0
    THEN /\ positions' =
              MapId(positions, pendingFileNameLinkId,
                    [showFileName |-> TRUE,
                     fileNamePositionId |-> pendingFileNameLinkId])
         /\ isSelectingFileNamePosition' = FALSE
         /\ pendingFileNameLinkId' = 0
         /\ UNCHANGED selectedPosition
    ELSE /\ selectedPosition' = positionId
         /\ UNCHANGED << positions, isSelectingFileNamePosition,
                         pendingFileNameLinkId >>

\* handlePositionClick: onClick of a rendered position.
handlePositionClick(positionId) ==
    IF isSelectingFileNamePosition /\ pendingFileNameLinkId # 0
    THEN /\ positions' =
              MapId(positions, pendingFileNameLinkId,
                    [showFileName |-> TRUE,
                     fileNamePositionId |-> positionId])
         /\ isSelectingFileNamePosition' = FALSE
         /\ pendingFileNameLinkId' = 0
         /\ UNCHANGED selectedPosition
    ELSE /\ selectedPosition' = positionId
         /\ UNCHANGED << positions, isSelectingFileNamePosition,
                         pendingFileNameLinkId >>

\* The position elements under a client point: the rendered boxes
\* (left = x * scale, translated by panOffset) that contain it.  Which of
\* several overlapping elements receives the event depends on the
\* stylesheet, which is not part of the sources: any of them may.
ElementsAt(pt) ==
    { positions[i].id : i \in { j \in 1..Len(positions) :
                                  HitTest(positions[j], getImageCoordinates(pt)) } }

InPanBounds(o) == Abs(o.x) <= MaxPan /\ Abs(o.y) <= MaxPan

\* ---------------------------------------------------------------- actions
\* A button press inside the image container.
MouseDown(pt, button, ctrlKey) ==
    /\ clickPending = 0
    /\ handlePanStart(pt, button, ctrlKey)
    /\ handleMouseDown(pt, button)
    /\ downTarget' \in (IF button = 0 THEN {0} \cup ElementsAt(pt) ELSE {0})
    /\ UNCHANGED << positions, scale, panOffset, currentRect, selectedShape,
                    isSelectingFileNamePosition, pendingFileNameLinkId, readers,
                    nextId, clickPending >>
    /\ UNCHANGED appVars
    /\ keyboardEffect

\* A pointer move inside the image container.
MouseMove(pt) ==
    /\ clickPending = 0
    /\ handlePanMove(pt)
    /\ InPanBounds(panOffset')
    /\ handleMouseMove(pt)
    /\ UNCHANGED << positions, scale, panStart, isDrawing, drawStart,
                    selectedPosition, selectedShape, isSelectingFileNamePosition,
                    pendingFileNameLinkId, readers, nextId, downTarget,
                    clickPending >>
    /\ UNCHANGED appVars
    /\ keyboardEffect

\* A button release inside the image container; the browser then sends
\* click to the element pressed and released on, if there is one.
MouseUpWithId(id) ==
    /\ clickPending = 0
    /\ handlePanEnd
    /\ handleMouseUpWithId(id)
    /\ clickPending' \in {0} \cup ({downTarget} \cap Ids(positions'))
    /\ downTarget' = 0
    /\ UNCHANGED << scale, panOffset, selectedPosition, selectedShape,
                    isSelectingFileNamePosition, pendingFileNameLinkId, readers >>
    /\ UNCHANGED appVars
    /\ keyboardEffect

\* The release of a button over the container, the id being a new one.
MouseUp == MouseUpWithId(nextId)

\* The pointer leaves the image container.
MouseLeave ==
    /\ clickPending = 0
    /\ handleMouseUp
    /\ downTarget' \in {0, downTarget}
    /\ UNCHANGED << scale, panStart, panOffset, selectedPosition, selectedShape,
                    isSelectingFileNamePosition, pendingFileNameLinkId, readers,
                    clickPending >>
    /\ UNCHANGED appVars
    /\ keyboardEffect

\* The click event on a rendered position.
PositionClick ==
    /\ clickPending # 0
    /\ handlePositionClick(clickPending)
    /\ clickPending' = 0
    /\ UNCHANGED << scale, panStart, panOffset, isDrawing, drawStart, currentRect,
                    selectedShape, readers, nextId, downTarget >>
    /\ UNCHANGED appVars
    /\ keyboardEffect

\* handleWheel: deltaY > 0 zooms out by 0.9, otherwise in by 1.1.
Wheel(deltaYPositive) ==
    /\ clickPending = 0
    /\ scale' =
          LET next == IF deltaYPositive THEN (scale * 9) \div 10
                                        ELSE (scale * 11) \div 10
          IN  Max(500, Min(5000, next))
    /\ UNCHANGED << positions, panStart, panOffset, isDrawing, drawStart,
                    currentRect, selectedPosition, selectedShape,
                    isSelectingFileNamePosition, pendingFileNameLinkId, readers,
                    nextId, downTarget, clickPending >>
    /\ UNCHANGED appVars
    /\ keyboardEffect

\* Mutant of ZoomOut: the lower clamp is missing.
ZoomOutUnclamped ==
    /\ clickPending = 0
    /\ scale' = scale - 100
    /\ UNCHANGED << positions, panStart, panOffset, isDrawing, drawStart,
                    currentRect, selectedPosition, selectedShape,
                    isSelectingFileNamePosition, pendingFileNameLinkId, readers,
                    nextId, downTarget, clickPending >>
    /\ UNCHANGED appVars
    /\ keyboardEffect

\* The Zoom Out button.
ZoomOut ==
    /\ clickPending = 0
    /\ scale' = Max(500, scale - 100)
    /\ UNCHANGED << positions, panStart, panOffset, isDrawing, drawStart,
                    currentRect, selectedPosition, selectedShape,
                    isSelectingFileNamePosition, pendingFileNameLinkId, readers,
                    nextId, downTarget, clickPending >>
    /\ UNCHANGED appVars
    /\ keyboardEffect

\* The Zoom In button.
ZoomIn ==
    /\ clickPending = 0
    /\ scale' = Min(5000, scale + 100)
    /\ UNCHANGED << positions, panStart, panOffset, isDrawing, drawStart,
                    currentRect, selectedPosition, selectedShape,
                    isSelectingFileNamePosition, pendingFileNameLinkId, readers,
                    nextId, downTarget, clickPending >>
    /\ UNCHANGED appVars
    /\ keyboardEffect

\* The Reset Zoom button.
ResetZoom ==
    /\ clickPending = 0
    /\ scale' = 1000
    /\ UNCHANGED << positions, panStart, panOffset, isDrawing, drawStart,
                    currentRect, selectedPosition, selectedShape,
                    isSelectingFileNamePosition, pendingFileNameLinkId, readers,
                    nextId, downTarget, clickPending >>
    /\ UNCHANGED appVars
    /\ keyboardEffect

\* The Reset Pan button.
ResetPan ==
    /\ clickPending = 0
    /\ panOffset' = [x |-> 0, y |-> 0]
    /\ UNCHANGED << positions, scale, panStart, isDrawing, drawStart, currentRect,
                    selectedPosition, selectedShape, isSelectingFileNamePosition,
                    pendingFileNameLinkId, readers, nextId, downTarget,
                    clickPending >>
    /\ UNCHANGED appVars
    /\ keyboardEffect

\* The shape selector.
SelectShape(s) ==
    /\ clickPending = 0
    /\ selectedShape' = s
    /\ UNCHANGED << positions, scale, panStart, panOffset, isDrawing, drawStart,
                    currentRect, selectedPosition, isSelectingFileNamePosition,
                    pendingFileNameLinkId, readers, nextId, downTarget,
                    clickPending >>
    /\ UNCHANGED appVars
    /\ keyboardEffect

\* keydown Delete / Backspace on window: a registered handleKeyDown runs
\* on the selectedPosition and positions of the render it closed over.
KeyDelete ==
    /\ clickPending = 0
    /\ \E l \in keydownListeners :
          IF l.selectedPosition # 0
          THEN /\ positions' = FilterOutId(l.positions, l.selectedPosition)
               /\ selectedPosition' = 0
          ELSE UNCHANGED << positions, selectedPosition >>
    /\ UNCHANGED << scale, panStart, panOffset, isDrawing, drawStart, currentRect,
                    selectedShape, isSelectingFileNamePosition,
                    pendingFileNameLinkId, readers, nextId, downTarget,
                    clickPending >>
    /\ UNCHANGED appVars
    /\ keyboardEffect

\* Mutant of KeyEscape: the pending link source is kept.
KeyEscapeKeepsPending ==
    /\ clickPending = 0
    /\ keydownListeners # {}
    /\ isSelectingFileNamePosition' = FALSE
    /\ UNCHANGED << positions, scale, panStart, panOffset, isDrawing, drawStart,
                    currentRect, selectedPosition, selectedShape, readers, nextId,
                    downTarget, clickPending, pendingFileNameLinkId >>
    /\ UNCHANGED appVars
    /\ keyboardEffect

\* keydown Escape on window: a registered handleKeyDown runs.
KeyEscape ==
    /\ clickPending = 0
    /\ keydownListeners # {}
    /\ isSelectingFileNamePosition' = FALSE
    /\ pendingFileNameLinkId' = 0
    /\ UNCHANGED << positions, scale, panStart, panOffset, isDrawing, drawStart,
                    currentRect, selectedPosition, selectedShape, readers, nextId,
                    downTarget, clickPending >>
    /\ UNCHANGED appVars
    /\ keyboardEffect

\* A click on a row of the positions table.
RowClick(id) ==
    /\ clickPending = 0
    /\ id \in Ids(positions)
    /\ selectedPosition' = id
    /\ UNCHANGED << positions, scale, panStart, panOffset, isDrawing, drawStart,
                    currentRect, selectedShape, isSelectingFileNamePosition,
                    pendingFileNameLinkId, readers, nextId, downTarget,
                    clickPending >>
    /\ UNCHANGED appVars
    /\ keyboardEffect

\* The Delete button of a row of the positions table.
RowDelete(id) ==
    /\ clickPending = 0
    /\ id \in Ids(positions)
    /\ positions' = FilterOutId(positions, id)
    /\ UNCHANGED << scale, panStart, panOffset, isDrawing, drawStart, currentRect,
                    selectedPosition, selectedShape, isSelectingFileNamePosition,
                    pendingFileNameLinkId, readers, nextId, downTarget,
                    clickPending >>
    /\ UNCHANGED appVars
    /\ keyboardEffect

\* handleOverlayUpload: a file chosen in the overlay input, which is
\* rendered while selectedPositionObj exists.  The reader's onloadend
\* closure keeps the positions and the selection of this render.
OverlayUpload(fileName) ==
    /\ clickPending = 0
    /\ HasSelectedObj
    /\ Cardinality(readers) < MaxReaders
    /\ readers' = readers \cup
          { [ positions |-> positions, selectedPosition |-> selectedPosition,
              fileName |-> fileName ] }
    /\ UNCHANGED << positions, scale, panStart, panOffset, isDrawing, drawStart,
                    currentRect, selectedPosition, selectedShape,
                    isSelectingFileNamePosition, pendingFileNameLinkId, nextId,
                    downTarget, clickPending >>
    /\ UNCHANGED appVars
    /\ keyboardEffect

\* reader.onloadend: result is the data URL, or null when the read failed.
OverlayLoadEnd(r, result) ==
    /\ clickPending = 0
    /\ r \in readers
    /\ positions' =
          MapId(r.positions, r.selectedPosition,
                [overlayImage |-> result,
                 overlayFileName |-> r.fileName])
    /\ readers' = readers \ {r}
    /\ UNCHANGED << scale, panStart, panOffset, isDrawing, drawStart, currentRect,
                    selectedPosition, selectedShape, isSelectingFileNamePosition,
                    pendingFileNameLinkId, nextId, downTarget, clickPending >>
    /\ UNCHANGED appVars
    /\ keyboardEffectDeferred

\* handleRemoveOverlay: the Remove Image button, rendered while the
\* selected position has an overlay.
RemoveOverlay ==
    /\ clickPending = 0
    /\ HasSelectedObj
    /\ selectedPositionObj.overlayImage # "null"
    /\ positions' =
          MapId(positions, selectedPosition,
                [overlayImage |-> "null",
                 overlayFileName |-> "null"])
    /\ UNCHANGED << scale, panStart, panOffset, isDrawing, drawStart, currentRect,
                    selectedPosition, selectedShape, isSelectingFileNamePosition,
                    pendingFileNameLinkId, readers, nextId, downTarget,
                    clickPending >>
    /\ UNCHANGED appVars
    /\ keyboardEffect

\* handleToggleFileName: the Link Filename Display button, disabled
\* unless the selected position has an overlay.
ToggleFileName ==
    /\ clickPending = 0
    /\ HasSelectedObj
    /\ selectedPositionObj.overlayImage # "null"
    /\ IF selectedPositionObj.showFileName
       THEN /\ positions' =
                 MapId(positions, selectedPosition,
                       [showFileName |-> FALSE,
                        fileNamePositionId |-> 0])
            /\ UNCHANGED << isSelectingFileNamePosition, pendingFileNameLinkId >>
       ELSE /\ isSelectingFileNamePosition' = TRUE
            /\ pendingFileNameLinkId' = selectedPosition
            /\ UNCHANGED positions
    /\ UNCHANGED << scale, panStart, panOffset, isDrawing, drawStart, currentRect,
                    selectedPosition, selectedShape, readers, nextId, downTarget,
                    clickPending >>
    /\ UNCHANGED appVars
    /\ keyboardEffect

\* The Remove Link button, rendered while the selected position has
\* showFileName.
RemoveLink ==
    /\ clickPending = 0
    /\ HasSelectedObj
    /\ selectedPositionObj.showFileName
    /\ positions' =
          MapId(positions, selectedPosition,
                [showFileName |-> FALSE,
                 fileNamePositionId |-> 0])
    /\ UNCHANGED << scale, panStart, panOffset, isDrawing, drawStart, currentRect,
                    selectedPosition, selectedShape, isSelectingFileNamePosition,
                    pendingFileNameLinkId, readers, nextId, downTarget,
                    clickPending >>
    /\ UNCHANGED appVars
    /\ keyboardEffect

\* React runs the passive effects that are still due: the keyboard
\* effect of the last render.
FlushPassiveEffects ==
    /\ UNCHANGED << positions, scale, panStart, panOffset, isDrawing, drawStart,
                    currentRect, selectedPosition, selectedShape,
                    isSelectingFileNamePosition, pendingFileNameLinkId, readers,
                    nextId, downTarget, clickPending >>
    /\ UNCHANGED appVars
    /\ keyboardEffect
    /\ keydownListeners' # keydownListeners

\* -------------------------------------------------------------------- App
\* ImageAnnotation is rendered while imageUrl is non-null.
Mounted == imageUrl # "null"

\* The data URL convertPdfToImage returns for a file and a format.
PdfImage(file, format) == IF format = "PNG" THEN "doc.png" ELSE "doc.jpg"

\* useState initial values of ImageAnnotation, taken when it mounts; the
\* browser's record of a press belongs to the elements that are gone.
MountSurface ==
    /\ scale' = 1000
    /\ panStart' = Null
    /\ panOffset' = [x |-> 0, y |-> 0]
    /\ isDrawing' = FALSE
    /\ drawStart' = Null
    /\ currentRect' = Null
    /\ selectedPosition' = 0
    /\ selectedShape' = "RECTANGLE"
    /\ isSelectingFileNamePosition' = FALSE
    /\ pendingFileNameLinkId' = 0
    /\ downTarget' = 0
    /\ clickPending' = 0

\* The surface's own state when imageUrl is set to url: initial when the
\* component mounts (imageUrl was null), kept when it is already mounted
\* and only its props change.
ShowImage(url) ==
    /\ imageUrl' = url
    /\ IF Mounted
       THEN UNCHANGED << scale, panStart, panOffset, isDrawing, drawStart,
                         currentRect, selectedPosition, selectedShape,
                         isSelectingFileNamePosition, pendingFileNameLinkId,
                         downTarget, clickPending >>
       ELSE MountSurface

\* The upload input is rendered while imageUrl is null and is disabled
\* while isConverting.
UploadInputEnabled == ~Mounted /\ ~isConverting

\* handleImageUpload with a raster file: a FileReader is started; its
\* onloadend starts an Image load.
ImageUploadRaster(file) ==
    /\ UploadInputEnabled
    /\ file \notin imageReads
    /\ Cardinality(imageReads) < MaxUploads
    /\ imageReads' = imageReads \cup {file}
    /\ alertMessage' = "null"
    /\ UNCHANGED << positions, scale, panStart, panOffset, isDrawing, drawStart,
                    currentRect, selectedPosition, selectedShape,
                    isSelectingFileNamePosition, pendingFileNameLinkId, readers,
                    nextId, downTarget, clickPending, imageUrl,
                    imageDimensions, showFormatModal, pendingPdfFile,
                    isConverting, conversions >>
    /\ databaseFormat' = << >>
    /\ UNCHANGED coordinateOrigin
    /\ keyboardEffect

\* handleImageUpload with a PDF: the file is kept and the format modal opens.
ImageUploadPdf(file) ==
    /\ UploadInputEnabled
    /\ pendingPdfFile' = file
    /\ showFormatModal' = TRUE
    /\ alertMessage' = "null"
    /\ UNCHANGED << positions, scale, panStart, panOffset, isDrawing, drawStart,
                    currentRect, selectedPosition, selectedShape,
                    isSelectingFileNamePosition, pendingFileNameLinkId, readers,
                    nextId, downTarget, clickPending, imageUrl,
                    imageDimensions, isConverting, imageReads, conversions >>
    /\ databaseFormat' = << >>
    /\ UNCHANGED coordinateOrigin
    /\ keyboardEffect

\* An img.onload that installs the image and keeps the list.
ImageLoadedKeepsPositions(file) ==
    /\ file \in imageReads
    /\ imageReads' = imageReads \ {file}
    /\ imageDimensions' = file
    /\ ShowImage(file)
    /\ alertMessage' = "null"
    /\ UNCHANGED << positions, readers, nextId, showFormatModal, pendingPdfFile,
                    isConverting, conversions >>
    /\ databaseFormat' = << >>
    /\ UNCHANGED coordinateOrigin
    /\ keyboardEffectDeferred

\* img.onload of a raster upload: the file was read and decoded.
ImageLoaded(file) ==
    /\ file \in imageReads
    /\ imageReads' = imageReads \ {file}
    /\ imageDimensions' = file
    /\ ShowImage(file)
    /\ positions' = << >>
    /\ alertMessage' = "null"
    /\ UNCHANGED << readers, nextId, showFormatModal, pendingPdfFile,
                    isConverting, conversions >>
    /\ databaseFormat' = << >>
    /\ UNCHANGED coordinateOrigin
    /\ keyboardEffectDeferred

\* A raster upload whose read or decode fails: onloadend hands a null
\* result to the Image, or the Image cannot decode the data; img.onload
\* never runs and there is no onerror handler.
ImageLoadFails(file) ==
    /\ file \in imageReads
    /\ imageReads' = imageReads \ {file}
    /\ alertMessage' = "null"
    /\ UNCHANGED << positions, scale, panStart, panOffset, isDrawing, drawStart,
                    currentRect, selectedPosition, selectedShape,
                    isSelectingFileNamePosition, pendingFileNameLinkId, readers,
                    nextId, downTarget, clickPending, imageUrl,
                    imageDimensions, showFormatModal, pendingPdfFile,
                    isConverting, conversions >>
    /\ databaseFormat' = << >>
    /\ UNCHANGED coordinateOrigin
    /\ keyboardEffectDeferred

\* handleFormatSelect: a format button of the modal.  The conversion
\* keeps the file and the format it was started with.
FormatSelect(format) ==
    /\ showFormatModal
    /\ IF pendingPdfFile = "null"
       THEN UNCHANGED << isConverting, showFormatModal, conversions >>
       ELSE /\ isConverting' = TRUE
            /\ showFormatModal' = FALSE
            /\ conversions' =
                   conversions \cup { [file |-> pendingPdfFile, format |-> format] }
    /\ alertMessage' = "null"
    /\ UNCHANGED << positions, scale, panStart, panOffset, isDrawing, drawStart,
                    currentRect, selectedPosition, selectedShape,
                    isSelectingFileNamePosition, pendingFileNameLinkId, readers,
                    nextId, downTarget, clickPending, imageUrl,
                    imageDimensions, pendingPdfFile, imageReads >>
    /\ databaseFormat' = << >>
    /\ UNCHANGED coordinateOrigin
    /\ keyboardEffect

\* handleFormatSelect after convertPdfToImage resolved: the conversion set
\* imageDimensions; then imageUrl, positions, and the finally block.
ConvertDone(c) ==
    /\ c \in conversions
    /\ conversions' = conversions \ {c}
    /\ imageDimensions' = c.file
    /\ ShowImage(PdfImage(c.file, c.format))
    /\ positions' = << >>
    /\ isConverting' = FALSE
    /\ pendingPdfFile' = "null"
    /\ alertMessage' = "null"
    /\ UNCHANGED << readers, nextId, showFormatModal, imageReads >>
    /\ databaseFormat' = << >>
    /\ UNCHANGED coordinateOrigin
    /\ keyboardEffectDeferred

\* handleFormatSelect after convertPdfToImage threw: the catch block
\* alerts, then the finally block.
ConvertFails(c) ==
    /\ c \in conversions
    /\ conversions' = conversions \ {c}
    /\ alertMessage' = "Failed to convert PDF. Please try again."
    /\ isConverting' = FALSE
    /\ pendingPdfFile' = "null"
    /\ UNCHANGED << positions, scale, panStart, panOffset, isDrawing, drawStart,
                    currentRect, selectedPosition, selectedShape,
                    isSelectingFileNamePosition, pendingFileNameLinkId, readers,
                    nextId, downTarget, clickPending, imageUrl,
                    imageDimensions, showFormatModal, imageReads >>
    /\ databaseFormat' = << >>
    /\ UNCHANGED coordinateOrigin
    /\ keyboardEffectDeferred

\* handleReset: the Upload New Image button, rendered while imageUrl is
\* non-null.  ImageAnnotation unmounts and its state is discarded; the
\* variables take the values the next mount gives them.
Reset ==
    /\ Mounted
    /\ imageUrl' = "null"
    /\ positions' = << >>
    /\ imageDimensions' = "null"
    /\ pendingPdfFile' = "null"
    /\ showFormatModal' = FALSE
    /\ MountSurface
    /\ alertMessage' = "null"
    /\ UNCHANGED << readers, nextId, isConverting, imageReads,
                    conversions >>
    /\ databaseFormat' = << >>
    /\ UNCHANGED coordinateOrigin
    /\ keyboardEffect

\* handleCancelFormatModal: the Cancel button of the modal.
CancelFormatModal ==
    /\ showFormatModal
    /\ showFormatModal' = FALSE
    /\ pendingPdfFile' = "null"
    /\ alertMessage' = "null"
    /\ UNCHANGED << positions, scale, panStart, panOffset, isDrawing, drawStart,
                    currentRect, selectedPosition, selectedShape,
                    isSelectingFileNamePosition, pendingFileNameLinkId, readers,
                    nextId, downTarget, clickPending, imageUrl,
                    imageDimensions, isConverting, imageReads, conversions >>
    /\ databaseFormat' = << >>
    /\ UNCHANGED coordinateOrigin
    /\ keyboardEffect

\* The App after construction: no image, the surface not mounted.
InitApp ==
    /\ positions = << >>
    /\ scale = 1000
    /\ panStart = Null
    /\ panOffset = [x |-> 0, y |-> 0]
    /\ isDrawing = FALSE
    /\ drawStart = Null
    /\ currentRect = Null
    /\ selectedPosition = 0
    /\ selectedShape = "RECTANGLE"
    /\ isSelectingFileNamePosition = FALSE
    /\ pendingFileNameLinkId = 0
    /\ readers = {}
    /\ nextId = 1
    /\ downTarget = 0
    /\ clickPending = 0
    /\ imageUrl = "null"
    /\ imageDimensions = "null"
    /\ showFormatModal = FALSE
    /\ pendingPdfFile = "null"
    /\ isConverting = FALSE
    /\ imageReads = {}
    /\ conversions = {}
    /\ alertMessage = "null"
    /\ coordinateOrigin = "TOP_LEFT"
    /\ databaseFormat = << >>
    /\ keydownListeners = {}

\* ---------------------------------------------------------- specifications
\* Events outside the image container that every specification takes.
ListEvents ==
    \/ KeyDelete
    \/ KeyEscape
    \/ \E id \in 1..MaxIds : RowClick(id)
    \/ \E id \in 1..MaxIds : RowDelete(id)

\* Drawing, selecting and deleting with every shape; presses are plain
\* (primary without Ctrl, or secondary), so the view stays unpanned.
Next ==
    \/ \E pt \in PointerPts, b \in {0, 2} : MouseDown(pt, b, FALSE)
    \/ \E pt \in PointerPts : MouseMove(pt)
    \/ MouseUp
    \/ MouseLeave
    \/ PositionClick
    \/ \E s \in ShapeType : SelectShape(s)
    \/ ListEvents

Spec == Init /\ [][Next]_vars

\* Every press (any button, with or without Ctrl), panning included, on
\* the points of PanPts; the shape stays RECTANGLE.
NextPan ==
    \/ \E pt \in PanPts, b \in Buttons, c \in BOOLEAN : MouseDown(pt, b, c)
    \/ \E pt \in PanPts : MouseMove(pt)
    \/ MouseUp
    \/ MouseLeave
    \/ PositionClick
    \/ ResetPan
    \/ ListEvents

SpecPan == Init /\ [][NextPan]_vars

\* Overlays and filename links on positions drawn with plain primary
\* presses on the points of PanPts.  Here every overlay read completes
\* before the next event (the other events wait for readers = {}), and
\* every read succeeds.
NextLink ==
    \/ readers = {} /\ \E pt \in PanPts : MouseDown(pt, 0, FALSE)
    \/ readers = {} /\ \E pt \in PanPts : MouseMove(pt)
    \/ readers = {} /\ MouseUp
    \/ readers = {} /\ MouseLeave
    \/ readers = {} /\ PositionClick
    \/ readers = {} /\ \E f \in FileNames : OverlayUpload(f)
    \/ readers = {} /\ RemoveOverlay
    \/ readers = {} /\ ToggleFileName
    \/ readers = {} /\ RemoveLink
    \/ readers = {} /\ ListEvents
    \/ \E r \in readers : OverlayLoadEnd(r, "data")
    \/ FlushPassiveEffects

SpecLink == Init /\ [][NextLink]_vars

\* Overlay reads in flight while the user goes on: positions are drawn,
\* selected (by a press or a click) and deleted between the start of a
\* read and its onloadend, and a read ends with a data URL or, when it
\* failed, with null.  One file name is offered.
NextReads ==
    \/ \E pt \in PanPts : MouseDown(pt, 0, FALSE)
    \/ \E pt \in PanPts : MouseMove(pt)
    \/ MouseUp
    \/ PositionClick
    \/ OverlayUpload("a.png")
    \/ \E r \in readers, result \in {"data", "null"} : OverlayLoadEnd(r, result)
    \/ KeyDelete
    \/ \E id \in 1..MaxIds : RowDelete(id)
    \/ FlushPassiveEffects

SpecReads == Init /\ [][NextReads]_vars

\* Zooming alone, with every control and without a bound on the number
\* of events: scale is clamped, so the reachable values are finitely many.
NextZoom ==
    \/ \E deltaYPositive \in BOOLEAN : Wheel(deltaYPositive)
    \/ ZoomOut
    \/ ZoomIn
    \/ ResetZoom

SpecZoom == Init /\ [][NextZoom]_vars

\* The App: uploads, conversions and resets in every order, with the
\* surface (while mounted) zoomed in and drawn on with plain primary presses.
NextApp ==
    \/ \E f \in ImageFiles : ImageUploadRaster(f)
    \/ \E f \in PdfFiles : ImageUploadPdf(f)
    \/ \E f \in ImageFiles : ImageLoaded(f)
    \/ \E f \in ImageFiles : ImageLoadFails(f)
    \/ \E format \in ImageFormat : FormatSelect(format)
    \/ \E c \in conversions : ConvertDone(c)
    \/ \E c \in conversions : ConvertFails(c)
    \/ Reset
    \/ CancelFormatModal
    \/ Mounted /\ scale < 1000 + 100 * MaxZoom /\ ZoomIn
    \/ Mounted /\ ResetZoom
    \/ Mounted /\ \E pt \in AppPts : MouseDown(pt, 0, FALSE)
    \/ Mounted /\ \E pt \in AppPts : MouseMove(pt)
    \/ Mounted /\ MouseUp
    \/ Mounted /\ PositionClick
    \/ FlushPassiveEffects

SpecApp == InitApp /\ [][NextApp]_vars

\* ------------------------------------------------------------------ claims
\* C1: in every reachable state the surface is never drawing (isDrawing)
\* and panning (panStart non-null) at the same time.
C1_NeverDrawingAndPanning == ~(isDrawing /\ panStart # Null)

\* C2: every button release or pointer-leave that occurs while a draw
\* gesture is active ends the gesture: afterwards isDrawing is false,
\* drawStart is null and there is no draft.
C2_ReleaseEndsDraw ==
    [][ (isDrawing /\ (MouseUp \/ MouseLeave))
            => (~isDrawing' /\ drawStart' = Null /\ currentRect' = Null) ]_vars

\* C3: a pointer-leave while panning ends the pan as a release does:
\* afterwards panStart is null.
C3_LeaveEndsPan ==
    [][ (panStart # Null /\ MouseLeave) => panStart' = Null ]_vars

\* C4: ending a draw gesture appends exactly one new position, with the
\* draft's x, y, width, height and the currently selected shape, when the
\* draft has width > 5 and height > 5, and otherwise leaves the committed
\* list as it was.
C4_EndOfDrawCommits ==
    [][ (isDrawing /\ (MouseUp \/ MouseLeave))
            => IF /\ currentRect # Null
                  /\ currentRect[1].width > 5000
                  /\ currentRect[1].height > 5000
               THEN /\ Len(positions') = Len(positions) + 1
                    /\ SubSeq(positions', 1, Len(positions)) = positions
                    /\ LET p == positions'[Len(positions')]
                           r == currentRect[1]
                       IN  /\ p.x = r.x /\ p.y = r.y
                           /\ p.width = r.width /\ p.height = r.height
                           /\ p.shape = selectedShape
               ELSE positions' = positions ]_vars

\* C4 witness: a position has been committed and the gesture in progress
\* holds a draft of width 4 and height 10, which its release discards.
C4_Witness ==
    /\ Len(positions) >= 1
    /\ isDrawing
    /\ currentRect # Null
    /\ currentRect[1].width = 4000
    /\ currentRect[1].height = 10000

\* C5: during a draw gesture the draft a pointer-move builds is the
\* axis-aligned bounding box of drawStart and the pointer's image point:
\* width and height are non-negative and the box spans exactly the two
\* points on each axis.
C5_DraftIsBoundingBox ==
    [][ \A pt \in PointerPts :
          (MouseMove(pt) /\ isDrawing /\ drawStart # Null)
              => /\ currentRect' # Null
                 /\ LET r == currentRect'[1]
                        s == drawStart[1]
                        c == getImageCoordinates(pt)
                    IN  /\ r.width >= 0
                        /\ r.height >= 0
                        /\ {r.x, r.x + r.width} = {s.x, c.x}
                        /\ {r.y, r.y + r.height} = {s.y, c.y} ]_vars

\* C5 witness: drawStart (10,10) and the pointer at (5,5) have given the
\* draft {x: 5, y: 5, width: 5, height: 5}.
C5_Witness ==
    /\ isDrawing
    /\ drawStart = Some([x |-> 10000, y |-> 10000])
    /\ currentRect # Null
    /\ currentRect[1].x = 5000 /\ currentRect[1].y = 5000
    /\ currentRect[1].width = 5000 /\ currentRect[1].height = 5000

\* C6: a primary press at an image point covered by committed positions
\* selects the first position in list order whose box contains the point
\* (edges inclusive, any shape) and starts no draw; a press at a point no
\* position covers starts a draw with drawStart at that image point.
C6_PressSelectsFirstOrDraws ==
    [][ \A pt \in PointerPts, c \in BOOLEAN :
          MouseDown(pt, 0, c)
              => LET q == getImageCoordinates(pt)
                     covering ==
                         { i \in 1..Len(positions) :
                             /\ q.x \in positions[i].x ..
                                        (positions[i].x + positions[i].width)
                             /\ q.y \in positions[i].y ..
                                        (positions[i].y + positions[i].height) }
                 IN  IF covering # {}
                     THEN /\ \E i \in covering :
                               /\ \A j \in covering : i <= j
                               /\ selectedPosition' = positions[i].id
                          /\ isDrawing' = isDrawing
                          /\ drawStart' = drawStart
                     ELSE /\ isDrawing'
                          /\ drawStart' = Some(q) ]_vars

\* C6 witness: two committed positions overlap, the press landed on the
\* element of the second and the first is the one selected.
C6_Witness ==
    /\ Len(positions) = 2
    /\ downTarget = positions[2].id
    /\ selectedPosition = positions[1].id
    /\ ~isDrawing

\* C7: deleting the selected position, by the Delete/Backspace key or by
\* the Delete button of its table row, removes exactly that entry from the
\* committed list, keeps the other entries in order, and leaves
\* selectedPosition cleared.
C7_DeleteSelectedClearsSelection ==
    [][ \A id \in 1..MaxIds :
          ( /\ selectedPosition = id
            /\ id \in Ids(positions)
            /\ (KeyDelete \/ RowDelete(id)) )
              => /\ positions' = SelectSeq(positions, LAMBDA p : p.id # id)
                 /\ Len(positions') = Len(positions) - 1
                 /\ selectedPosition' = 0 ]_vars

\* C8: a Delete/Backspace key press with a selection present leaves the
\* surface idle: not drawing, not panning, not selecting a link target.
C8_DeleteKeyLeavesIdle ==
    [][ (KeyDelete /\ selectedPosition # 0)
            => /\ ~isDrawing'
               /\ panStart' = Null
               /\ ~isSelectingFileNamePosition'
               /\ pendingFileNameLinkId' = 0 ]_vars

\* C9: no committed position has fileNamePositionId equal to its own id.
C9_NoSelfLink ==
    \A i \in 1..Len(positions) : positions[i].fileNamePositionId # positions[i].id

\* The click that chooses B as link target while A is the pending source:
\* A is committed with an overlay, B is another committed position.
C10_LinkClick(a, b) ==
    /\ PositionClick
    /\ clickPending = b
    /\ isSelectingFileNamePosition
    /\ pendingFileNameLinkId = a
    /\ a # b
    /\ a \in Ids(positions)
    /\ b \in Ids(positions)
    /\ positions[IndexOfId(positions, a)].overlayImage # "null"

\* What C10 promises after that click: B displays A's filename and A
\* displays none.
C10_LinkResult(a, b) ==
    /\ getLinkedFileName(positions', b) =
           positions[IndexOfId(positions, a)].overlayFileName
    /\ getLinkedFileName(positions', a) = "null"

\* No position other than a has its filename linked to a or to b.
C10_NoOtherLink(a, b) ==
    \A i \in 1..Len(positions) :
        positions[i].id # a
            => ~( /\ positions[i].showFileName
                  /\ positions[i].fileNamePositionId \in {a, b} )

\* C10 as stated: for every committed list with distinct A (with an
\* overlay) and B, the link requested on A and the click on B give
\* getLinkedFileName(B) = A.overlayFileName and getLinkedFileName(A) = null.
C10_LinkThenClick ==
    [][ \A a \in 1..MaxIds, b \in 1..MaxIds :
          C10_LinkClick(a, b) => C10_LinkResult(a, b) ]_vars

\* C10 amended: the same, for lists in which no position other than A has
\* its filename linked to A or to B.
C10_LinkThenClickNoOtherLink ==
    [][ \A a \in 1..MaxIds, b \in 1..MaxIds :
          (C10_LinkClick(a, b) /\ C10_NoOtherLink(a, b))
              => C10_LinkResult(a, b) ]_vars

\* C10 witness: the link has been made; a position with an overlay shows
\* its filename in another committed position, which resolves to it.
C10_Witness ==
    /\ ~isSelectingFileNamePosition
    /\ \E i \in 1..Len(positions), j \in 1..Len(positions) :
          /\ i # j
          /\ positions[i].overlayImage # "null"
          /\ positions[i].showFileName
          /\ positions[i].fileNamePositionId = positions[j].id
          /\ getLinkedFileName(positions, positions[j].id) =
                 positions[i].overlayFileName
          /\ getLinkedFileName(positions, positions[i].id) = "null"

\* C11: Escape pressed during link target selection ends the selection
\* (isSelectingFileNamePosition false, pendingFileNameLinkId null) and
\* leaves the committed list and every field of every position unchanged.
C11_EscapeCancelsLinking ==
    [][ (isSelectingFileNamePosition /\ KeyEscape)
            => /\ ~isSelectingFileNamePosition'
               /\ pendingFileNameLinkId' = 0
               /\ positions' = positions ]_vars

\* C11 witness: link target selection is open on a committed position of
\* a list of two, with no click or read outstanding, so Escape acts on it.
C11_Witness ==
    /\ isSelectingFileNamePosition
    /\ pendingFileNameLinkId \in Ids(positions)
    /\ Len(positions) = 2
    /\ clickPending = 0
    /\ readers = {}

\* Position id is in ps and has showFileName set.
C12_Shows(ps, id) ==
    IndexOfId(ps, id) # 0 /\ ps[IndexOfId(ps, id)].showFileName

\* Position id is in ps and has an overlay image.
C12_HasOverlay(ps, id) ==
    IndexOfId(ps, id) # 0 /\ ps[IndexOfId(ps, id)].overlayImage # "null"

\* C12: link target selection is entered only for a position whose
\* overlayImage is non-null, and whenever showFileName becomes true on a
\* position P, P.overlayImage is non-null at that moment.
C12_LinkOnlyWithOverlay ==
    [][ /\ (~isSelectingFileNamePosition /\ isSelectingFileNamePosition')
              => C12_HasOverlay(positions, pendingFileNameLinkId')
        /\ \A id \in 1..MaxIds :
              (~C12_Shows(positions, id) /\ C12_Shows(positions', id))
                  => C12_HasOverlay(positions', id) ]_vars

\* C13: in every reachable state each committed position whose
\* fileNamePositionId is set references the id of a position that is in
\* the committed list.
C13_LinkTargetExists ==
    \A i \in 1..Len(positions) :
        positions[i].fileNamePositionId # 0
            => positions[i].fileNamePositionId \in Ids(positions)

\* C14: once the position P.fileNamePositionId refers to has been deleted
\* (the reference is set and names no committed position), P is rendered
\* as having no link: no remaining position is the one P's filename is
\* displayed in, and P's own link indicator is not shown.
C14_DanglingLinkNotRendered ==
    \A i \in 1..Len(positions) :
        ( /\ positions[i].fileNamePositionId # 0
          /\ positions[i].fileNamePositionId \notin Ids(positions) )
            => /\ \A j \in 1..Len(positions) :
                     ~( /\ positions[i].showFileName
                        /\ positions[i].fileNamePositionId = positions[j].id
                        /\ getLinkedFileName(positions, positions[j].id)
                               = positions[i].overlayFileName )
               /\ ~linkIndicatorShown(positions[i])

\* C15: when the overlay read started for position id p completes and no
\* position with id p is in the committed list, the committed list is
\* left exactly as it was.
C15_LoadEndForMissingIsNoOp ==
    [][ \A r \in readers, result \in {"data", "null"} :
          ( /\ OverlayLoadEnd(r, result)
            /\ r.selectedPosition \notin Ids(positions) )
              => positions' = positions ]_vars

\* C16: whenever the displayed image changes from one image to another,
\* the view transform right afterwards is scale = 1 and panOffset = (0,0).
C16_ImageChangeResetsView ==
    [][ (imageUrl # "null" /\ imageUrl' # "null" /\ imageUrl' # imageUrl)
            => (scale' = 1000 /\ panOffset' = [x |-> 0, y |-> 0]) ]_vars

\* C17: at most one image or PDF decode/convert operation of the App is
\* in flight at any time.
C17_OneUploadInFlight ==
    Cardinality(imageReads) + Cardinality(conversions) <= 1

\* C18: when the decode of an uploaded raster file or the conversion of an
\* uploaded PDF fails, a failure notice is shown, imageUrl, positions and
\* imageDimensions keep their values, and isConverting is false afterwards.
C18_FailedUploadRollsBack ==
    [][ ( \/ \E f \in ImageFiles : ImageLoadFails(f)
          \/ \E c \in conversions : ConvertFails(c) )
            => /\ alertMessage' # "null"
               /\ imageUrl' = imageUrl
               /\ positions' = positions
               /\ imageDimensions' = imageDimensions
               /\ ~isConverting' ]_vars

\* C19: in every reachable state the zoom scale lies in [0.5, 5.0], for
\* every sequence of wheel ticks, Zoom In / Zoom Out presses and Reset Zoom.
C19_ScaleWithinBounds == scale >= 500 /\ scale <= 5000

\* C19 witness: the scale has been driven to the upper bound, where a
\* further Zoom In or wheel tick is clamped.
C19_Witness == scale = 5000

\* C20: at every moment at most one keydown listener of the surface is
\* registered, and only while the surface is mounted; and whenever a
\* Delete / Backspace press is handled, the selection and the position
\* list the handler acts on are the current ones.
C20_OneCurrentKeydownListener ==
    /\ [](Cardinality(keydownListeners) <= 1)
    /\ [](keydownListeners # {} => Mounted)
    /\ [][ KeyDelete
             => \A l \in keydownListeners :
                   /\ l.selectedPosition = selectedPosition
                   /\ l.positions = positions ]_vars

\* ------------------------------------------------------------- the export
CoordinateOrigin ==
    {"TOP_LEFT", "TOP_RIGHT", "BOTTOM_LEFT", "BOTTOM_RIGHT", "CENTER"}

\* img.naturalWidth and img.naturalHeight of a file, in thousandths.
Dims(file) ==
    IF file = "a.png" THEN [width |-> Px(40), height |-> Px(30)]
    ELSE [width |-> Px(25), height |-> Px(35)]

\* The spacing of the representable numbers at magnitude n >= 0.
RECURSIVE Ulp(_)
Ulp(n) == IF n < 2 ^ MantissaBits THEN 1 ELSE 2 * Ulp(n \div 2)

\* The result of an arithmetic operation whose exact value is v: the
\* nearest representable number, ties to the even mantissa.
fl(v) ==
    LET n == Abs(v)
        u == Ulp(n)
        lo == (n \div u) * u
        r == n - lo
        m == IF 2 * r > u \/ (2 * r = u /\ (lo \div u) % 2 = 1)
             THEN lo + u ELSE lo
    IN  IF v < 0 THEN 0 - m ELSE m

\* a * (k / 1000) for a in thousandths: the product to the nearest
\* thousandth.
Times(a, k) == fl((a * k + 500) \div 1000)

\* Math.round of a value in thousandths, in whole pixels: the nearest
\* integer, a half going up.
MathRound(v) == (v + 500) \div 1000

\* A transform whose right-hand origins keep the direction of the x axis.
transformCoordinateShifted(x, y) ==
    IF imageDimensions = "null" THEN [x |-> x, y |-> y]
    ELSE LET imgW == Dims(imageDimensions).width
             imgH == Dims(imageDimensions).height
         IN  CASE coordinateOrigin = "TOP_RIGHT" -> [x |-> fl(x - imgW), y |-> y]
               [] coordinateOrigin = "BOTTOM_LEFT" -> [x |-> x, y |-> fl(imgH - y)]
               [] coordinateOrigin = "BOTTOM_RIGHT" ->
                      [x |-> fl(x - imgW), y |-> fl(imgH - y)]
               [] coordinateOrigin = "CENTER" ->
                      [x |-> fl(x - imgW \div 2), y |-> fl(y - imgH \div 2)]
               [] OTHER -> [x |-> x, y |-> y]

\* transformCoordinate: a point of image space in the selected origin.
transformCoordinate(x, y) ==
    IF imageDimensions = "null" THEN [x |-> x, y |-> y]
    ELSE LET imgW == Dims(imageDimensions).width
             imgH == Dims(imageDimensions).height
         IN  CASE coordinateOrigin = "TOP_LEFT" -> [x |-> x, y |-> y]
               [] coordinateOrigin = "TOP_RIGHT" -> [x |-> fl(imgW - x), y |-> y]
               [] coordinateOrigin = "BOTTOM_LEFT" -> [x |-> x, y |-> fl(imgH - y)]
               [] coordinateOrigin = "BOTTOM_RIGHT" ->
                      [x |-> fl(imgW - x), y |-> fl(imgH - y)]
               [] coordinateOrigin = "CENTER" ->
                      [x |-> fl(x - imgW \div 2), y |-> fl(y - imgH \div 2)]
               [] OTHER -> [x |-> x, y |-> y]

RoundedPoint(p) == [x |-> MathRound(p.x), y |-> MathRound(p.y)]

\* The coordinates handleSavePositions of the App with origins computes
\* for one position, before JSON.stringify (which writes the list of
\* points out, in order, and is one to one on lists of integer points).
coordinates(pos) ==
    CASE pos.shape = "RECTANGLE" ->
           LET tl == transformCoordinate(pos.x, pos.y)
               br == transformCoordinate(fl(pos.x + pos.width),
                                         fl(pos.y + pos.height))
           IN  << RoundedPoint(tl), RoundedPoint(br) >>
      [] pos.shape = "CIRCLE" ->
           LET rawCenterX == fl(pos.x + pos.width \div 2)
               rawCenterY == fl(pos.y + pos.height \div 2)
               center == transformCoordinate(rawCenterX, rawCenterY)
               radius == MathRound(Max(pos.width, pos.height) \div 2)
           IN  << RoundedPoint(center), [x |-> radius, y |-> 0] >>
      [] pos.shape = "TRAPEZOID" ->
           LET topWidth == Times(pos.width, 800)
               topOffset == fl(pos.width - topWidth) \div 2
               tl == transformCoordinate(fl(pos.x + topOffset), pos.y)
               br == transformCoordinate(fl(pos.x + pos.width),
                                         fl(pos.y + pos.height))
           IN  << RoundedPoint(tl), RoundedPoint(br) >>
      [] OTHER -> << >>

\* The coordinates handleSavePositions of the App without origins
\* (src/src/App.tsx) computes for one position.
coordinatesAllCorners(pos) ==
    CASE pos.shape = "RECTANGLE" ->
           << [x |-> MathRound(pos.x), y |-> MathRound(pos.y)],
              [x |-> MathRound(fl(pos.x + pos.width)), y |-> MathRound(pos.y)],
              [x |-> MathRound(fl(pos.x + pos.width)),
               y |-> MathRound(fl(pos.y + pos.height))],
              [x |-> MathRound(pos.x), y |-> MathRound(fl(pos.y + pos.height))] >>
      [] pos.shape = "CIRCLE" ->
           LET centerX == MathRound(fl(pos.x + pos.width \div 2))
               centerY == MathRound(fl(pos.y + pos.height \div 2))
               radius == MathRound(Max(pos.width, pos.height) \div 2)
           IN  << [x |-> centerX, y |-> centerY],
                  [x |-> centerX + radius, y |-> centerY] >>
      [] pos.shape = "TRAPEZOID" ->
           LET topWidth == Times(pos.width, 800)
               topOffset == fl(pos.width - topWidth) \div 2
           IN  << [x |-> MathRound(fl(pos.x + topOffset)), y |-> MathRound(pos.y)],
                  [x |-> MathRound(fl(fl(pos.x + topOffset) + topWidth)),
                   y |-> MathRound(pos.y)],
                  [x |-> MathRound(fl(pos.x + pos.width)),
                   y |-> MathRound(fl(pos.y + pos.height))],
                  [x |-> MathRound(pos.x), y |-> MathRound(fl(pos.y + pos.height))] >>
      [] OTHER -> << >>

\* A databaseFormat whose entries are in the reverse of the list order.
DatabaseFormatReversed(ps) ==
    [ i \in 1..Len(ps) |->
          [coordinates |-> coordinates(ps[Len(ps) + 1 - i]),
           shape |-> ps[Len(ps) + 1 - i].shape] ]

\* databaseFormat of handleSavePositions: one entry per position, in
\* list order.
DatabaseFormat(ps) ==
    [ i \in 1..Len(ps) |-> [coordinates |-> coordinates(ps[i]), shape |-> ps[i].shape] ]

DatabaseFormatAllCorners(ps) ==
    [ i \in 1..Len(ps) |->
          [coordinates |-> coordinatesAllCorners(ps[i]), shape |-> ps[i].shape] ]

surfaceVars ==
    << scale, panStart, panOffset, isDrawing, drawStart, currentRect,
       selectedPosition, selectedShape, isSelectingFileNamePosition,
       pendingFileNameLinkId, readers, nextId, downTarget, clickPending >>

\* handleSavePositions of the App with origins: nothing is set, so no
\* render follows; the alert either tells that there is nothing to save
\* or lists the entries.
handleSavePositions ==
    /\ IF Len(positions) = 0
       THEN /\ alertMessage' = "No positions to save"
            /\ databaseFormat' = << >>
       ELSE /\ alertMessage' = "Database Format"
            /\ databaseFormat' = DatabaseFormat(positions)
    /\ UNCHANGED << positions, imageUrl, imageDimensions, showFormatModal,
                    pendingPdfFile, isConverting, imageReads, conversions,
                    coordinateOrigin, keydownListeners >>
    /\ UNCHANGED surfaceVars

\* handleSavePositions of the App without origins (src/src/App.tsx).
handleSavePositionsAllCorners ==
    /\ IF Len(positions) = 0
       THEN /\ alertMessage' = "No positions to save"
            /\ databaseFormat' = << >>
       ELSE /\ alertMessage' = "Database Format"
            /\ databaseFormat' = DatabaseFormatAllCorners(positions)
    /\ UNCHANGED << positions, imageUrl, imageDimensions, showFormatModal,
                    pendingPdfFile, isConverting, imageReads, conversions,
                    coordinateOrigin, keydownListeners >>
    /\ UNCHANGED surfaceVars

\* An origin selector that rewrites the stored x into a right-hand origin.
CoordinateOriginChangeRewrites(origin) ==
    /\ Mounted
    /\ origin # coordinateOrigin
    /\ coordinateOrigin' = origin
    /\ positions' =
           [ i \in 1..Len(positions) |->
                 [positions[i] EXCEPT
                      !.x = IF origin \in {"TOP_RIGHT", "BOTTOM_RIGHT"}
                            THEN Dims(imageDimensions).width - @ ELSE @] ]
    /\ alertMessage' = "null"
    /\ databaseFormat' = << >>
    /\ UNCHANGED << imageUrl, imageDimensions, showFormatModal,
                    pendingPdfFile, isConverting, imageReads, conversions >>
    /\ UNCHANGED surfaceVars
    /\ keyboardEffect

\* The origin selector of the surface: onCoordinateOriginChange is the
\* App's setCoordinateOrigin.
CoordinateOriginChange(origin) ==
    /\ Mounted
    /\ origin # coordinateOrigin
    /\ coordinateOrigin' = origin
    /\ alertMessage' = "null"
    /\ databaseFormat' = << >>
    /\ UNCHANGED << positions, imageUrl, imageDimensions, showFormatModal,
                    pendingPdfFile, isConverting, imageReads, conversions >>
    /\ UNCHANGED surfaceVars
    /\ keyboardEffect

\* The boxes of the export's specification, in thousandths: the two boxes
\* with whole pixels, and a box drawn from (5, 10) at 110% zoom.  Widths
\* and heights are even counts, so that halving them is exact.
ExportBoxes ==
    { [x |-> 0, y |-> 0, width |-> Px(10), height |-> Px(20)],
      [x |-> 0, y |-> 0, width |-> Px(10), height |-> Px(10)],
      [x |-> 4545, y |-> 9090, width |-> Px(15), height |-> Px(7)] }

\* The committed lists of the export's specification.
ExportLists ==
    UNION { [ 1..n -> { NewPosition(0, b, s) : b \in ExportBoxes, s \in ShapeType } ]
            : n \in 0..MaxIds }

\* The surface on a raster image with a committed list drawn before.
InitExport ==
    /\ \E l \in ExportLists :
           positions = [ i \in 1..Len(l) |-> [l[i] EXCEPT !.id = i] ]
    /\ nextId = Len(positions) + 1
    /\ \E f \in ImageFiles : imageUrl = f /\ imageDimensions = f
    /\ scale = 1000
    /\ panStart = Null
    /\ panOffset = [x |-> 0, y |-> 0]
    /\ isDrawing = FALSE
    /\ drawStart = Null
    /\ currentRect = Null
    /\ selectedPosition = 0
    /\ selectedShape = "RECTANGLE"
    /\ isSelectingFileNamePosition = FALSE
    /\ pendingFileNameLinkId = 0
    /\ readers = {}
    /\ downTarget = 0
    /\ clickPending = 0
    /\ showFormatModal = FALSE
    /\ pendingPdfFile = "null"
    /\ isConverting = FALSE
    /\ imageReads = {}
    /\ conversions = {}
    /\ alertMessage = "null"
    /\ coordinateOrigin = "TOP_LEFT"
    /\ databaseFormat = << >>
    /\ keydownListeners = { [selectedPosition |-> 0, positions |-> positions] }

\* The export in every origin, by either App, of every list of ExportLists.
NextExport ==
    \/ \E origin \in CoordinateOrigin : CoordinateOriginChange(origin)
    \/ handleSavePositions
    \/ handleSavePositionsAllCorners

SpecExport == InitExport /\ [][NextExport]_vars

\* ------------------------------------------------------------ C21 .. C30
\* C21: changing the coordinate origin and running the export leave every
\* field of every committed position as it was; only what the export
\* lists depends on the origin.
C21_OriginAndExportKeepPositions ==
    [][ (coordinateOrigin' # coordinateOrigin \/ alertMessage' # "null")
            => positions' = positions ]_vars

\* An export under BOTTOM_RIGHT that lists, for the first position, a
\* corner other than the stored one.
C21_Witness ==
    /\ coordinateOrigin = "BOTTOM_RIGHT"
    /\ Len(positions) > 0
    /\ databaseFormat = DatabaseFormat(positions)
    /\ databaseFormat[1].coordinates[1]
           # [x |-> MathRound(positions[1].x), y |-> MathRound(positions[1].y)]

\* The points the export and the table transform: the two corners of
\* every committed box.
C22_Points ==
    UNION { { [x |-> positions[i].x, y |-> positions[i].y],
              [x |-> fl(positions[i].x + positions[i].width),
               y |-> fl(positions[i].y + positions[i].height)] }
            : i \in 1..Len(positions) }

\* The way back from the selected origin: the transform once more, and
\* for CENTER the addition of half the dimensions.
C22_Back(p) ==
    IF coordinateOrigin = "CENTER"
    THEN [x |-> fl(p.x + Dims(imageDimensions).width \div 2),
          y |-> fl(p.y + Dims(imageDimensions).height \div 2)]
    ELSE transformCoordinate(p.x, p.y)

C22_RoundTrip(p) == C22_Back(transformCoordinate(p.x, p.y))

\* The transform of p is the exact difference, no bit rounded away.
C22_NothingRounded(p) ==
    LET imgW == Dims(imageDimensions).width
        imgH == Dims(imageDimensions).height
    IN  /\ fl(imgW - p.x) = imgW - p.x
        /\ fl(imgH - p.y) = imgH - p.y
        /\ fl(p.x - imgW \div 2) = p.x - imgW \div 2
        /\ fl(p.y - imgH \div 2) = p.y - imgH \div 2

\* C22 (as stated): in every origin the way there and back returns every
\* point exactly; under TOP_LEFT the transform itself is the identity.
C22_RoundTripExact ==
    \A p \in C22_Points :
        /\ C22_RoundTrip(p) = p
        /\ coordinateOrigin = "TOP_LEFT" => transformCoordinate(p.x, p.y) = p

\* C22 (amended): under TOP_LEFT the transform is the identity, once and
\* twice; in the other origins the way there and back returns the point
\* to within the spacing of the numbers at the size of the image, and
\* exactly when the transform rounded nothing away.
C22_RoundTripWithinRounding ==
    \A p \in C22_Points :
        LET q == C22_RoundTrip(p)
            e == Ulp(Max(Dims(imageDimensions).width, Dims(imageDimensions).height))
        IN  /\ coordinateOrigin = "TOP_LEFT" =>
                   transformCoordinate(p.x, p.y) = p /\ q = p
            /\ Abs(q.x - p.x) <= e /\ Abs(q.y - p.y) <= e
            /\ C22_NothingRounded(p) => q = p

\* A box away from the corner of the image was exported under
\* BOTTOM_RIGHT, and its corner comes back exactly.
C22_Witness ==
    /\ coordinateOrigin = "BOTTOM_RIGHT"
    /\ databaseFormat # << >>
    /\ \E p \in C22_Points :
           /\ p.x # 0 /\ p.y # 0
           /\ transformCoordinate(p.x, p.y) # p
           /\ C22_RoundTrip(p) = p

\* C23: the entries an export lists for a circle are two values, the
\* center round(transform(x + w/2, y + h/2)) and the radius
\* round(max(w, h)/2), the radius not depending on the origin; the box
\* (0, 0, 10, 20) gives the center (5, 10) and the radius 10.
C23_CircleExport ==
    databaseFormat # << >> =>
        \A i \in 1..Len(positions) :
            positions[i].shape = "CIRCLE" =>
                LET p == positions[i]
                    c == databaseFormat[i].coordinates
                    center == transformCoordinate(fl(p.x + p.width \div 2),
                                                  fl(p.y + p.height \div 2))
                    radius == MathRound(Max(p.width, p.height) \div 2)
                IN  /\ Len(c) = 2
                    /\ c[1] = [x |-> MathRound(center.x), y |-> MathRound(center.y)]
                    /\ c[2] = [x |-> radius, y |-> 0]
                    /\ ( /\ coordinateOrigin = "TOP_LEFT"
                         /\ p.x = 0 /\ p.y = 0
                         /\ p.width = Px(10) /\ p.height = Px(20) )
                       => c[1] = [x |-> 5, y |-> 10] /\ c[2].x = 10

\* C24: the entries an export lists for a trapezoid with box (x, y, w, h)
\* are its four corners in the order Top-left (x + 0.1w, y), Top-right
\* (x + 0.9w, y), Bottom-right (x + w, y + h), Bottom-left (x, y + h),
\* each rounded (in the origin of the stored box, TOP_LEFT); the box
\* (0, 0, 10, 10) gives (1, 0), (9, 0), (10, 10), (0, 10).
C24_TrapezoidExport ==
    (databaseFormat # << >> /\ coordinateOrigin = "TOP_LEFT") =>
        \A i \in 1..Len(positions) :
            positions[i].shape = "TRAPEZOID" =>
                LET p == positions[i]
                    c == databaseFormat[i].coordinates
                IN  /\ c = << [x |-> MathRound(p.x + Times(p.width, 100)),
                               y |-> MathRound(p.y)],
                              [x |-> MathRound(p.x + Times(p.width, 900)),
                               y |-> MathRound(p.y)],
                              [x |-> MathRound(p.x + p.width),
                               y |-> MathRound(p.y + p.height)],
                              [x |-> MathRound(p.x),
                               y |-> MathRound(p.y + p.height)] >>
                    /\ ( /\ p.x = 0 /\ p.y = 0
                         /\ p.width = Px(10) /\ p.height = Px(10) )
                       => c = << [x |-> 1, y |-> 0], [x |-> 9, y |-> 0],
                                 [x |-> 10, y |-> 10], [x |-> 0, y |-> 10] >>

\* C25: an export of an empty list raises the notice that there is
\* nothing to save and lists no entry; an export of n > 0 positions lists
\* exactly n entries, the i-th being the coordinates and the shape of the
\* i-th position.
C25_ExportEntries ==
    [][ (alertMessage' # "null" /\ coordinateOrigin' = coordinateOrigin) =>
            IF Len(positions) = 0
            THEN alertMessage' = "No positions to save" /\ databaseFormat' = << >>
            ELSE /\ alertMessage' # "No positions to save"
                 /\ Len(databaseFormat') = Len(positions)
                 /\ \A i \in 1..Len(positions) :
                        /\ databaseFormat'[i].shape = positions[i].shape
                        /\ databaseFormat'[i].coordinates \in
                               { coordinates(positions[i]),
                                 coordinatesAllCorners(positions[i]) } ]_vars

\* The export ran on an empty list.
C25_Witness ==
    /\ Len(positions) = 0
    /\ alertMessage = "No positions to save"
    /\ databaseFormat = << >>

\* The export listed two positions of different shapes.
C25_TwoEntries ==
    /\ Len(positions) = 2
    /\ Len(databaseFormat) = 2
    /\ databaseFormat[1].shape # databaseFormat[2].shape

\* The claim's reading of the lookup: the first position in list order
\* that shows its filename in positionId, whatever its filename is.
C26_FirstLinking(ps, positionId) ==
    LET ls == { i \in 1..Len(ps) :
                  ps[i].showFileName /\ ps[i].fileNamePositionId = positionId }
    IN  IF ls = {} THEN "null"
        ELSE ps[CHOOSE i \in ls : \A j \in ls : i <= j].overlayFileName

C26_Names(i, id) ==
    /\ positions[i].showFileName
    /\ positions[i].fileNamePositionId = id
    /\ positions[i].overlayFileName # "null"

C27_NoPressStartsDrawOrPan ==
    [][ isSelectingFileNamePosition =>
            /\ (isDrawing' => isDrawing)
            /\ (panStart' # Null => panStart # Null) ]_vars

\* C27: while the target of a filename link is being selected, the
\* surface is neither drawing nor panning, and no press starts a draw or
\* a pan.
C27_LinkingExcludesDrawAndPan ==
    /\ [](isSelectingFileNamePosition => (~isDrawing /\ panStart = Null))
    /\ C27_NoPressStartsDrawOrPan

\* C28: a committed position has a filename exactly when it has an
\* overlay image.
C28_FileNameIffOverlay ==
    \A i \in 1..Len(positions) :
        (positions[i].overlayFileName # "null") <=> (positions[i].overlayImage # "null")

\* The fields of a position that are fixed when it is committed.
C29_Fixed(p) ==
    [id |-> p.id, shape |-> p.shape, x |-> p.x, y |-> p.y,
     width |-> p.width, height |-> p.height]

\* A committed position keeps its fixed fields for as long as it is in
\* the list.
C29_FixedFieldsKept ==
    [][ \A i \in 1..Len(positions), j \in 1..Len(positions') :
            positions[i].id = positions'[j].id =>
                C29_Fixed(positions[i]) = C29_Fixed(positions'[j]) ]_vars

\* The list after the step is the list before it but for the overlay and
\* link fields of at most one position.
C29_AtMostOneTouched ==
    /\ Len(positions') = Len(positions)
    /\ \A i \in 1..Len(positions) : C29_Fixed(positions'[i]) = C29_Fixed(positions[i])
    /\ Cardinality({ i \in 1..Len(positions) : positions'[i] # positions[i] }) <= 1

\* A step that neither commits a draft (nextId moves) nor is a Delete
\* (the list of ids loses exactly one id): an overlay upload's start and
\* completion, an overlay removal, a link change, a selection.
C29_OtherStep ==
    /\ nextId' = nextId
    /\ ~ \E id \in Ids(positions) : positions' = FilterOutId(positions, id)

\* C29: the id, shape, x, y, width and height of a committed position
\* never change, and every operation other than a commit and a delete
\* changes at most the overlay and link fields of one position.
C29_OnlyOverlayAndLinkFieldsChange ==
    /\ C29_FixedFieldsKept
    /\ [][ C29_OtherStep => C29_AtMostOneTouched ]_vars

\* Drawing and deleting with ids as the code makes them: a release
\* commits the draft under any value the clock and Math.random() can
\* give, new or given before; nothing compares it with the ids in use.
NextIds ==
    \/ \E pt \in PointerPts : MouseDown(pt, 0, FALSE)
    \/ \E pt \in PointerPts : MouseMove(pt)
    \/ \E id \in 1..MaxIds : MouseUpWithId(id)
    \/ PositionClick
    \/ KeyDelete
    \/ \E id \in 1..MaxIds : RowDelete(id)

SpecIds == Init /\ [][NextIds]_vars

\* C30: the committed positions have pairwise distinct ids (and an id
\* given to a position is not given to a later one).
C30_DistinctIds ==
    \A i \in 1..Len(positions), j \in 1..Len(positions) :
        positions[i].id = positions[j].id => i = j

\* ------------------------------------------------------------ C31 .. C40
\* C31: a draft exists only while drawing (currentRect non-null implies
\* isDrawing and drawStart non-null; isDrawing exactly when drawStart is
\* non-null), and the draft, whose id is "temp", is never in the
\* committed list.
C31_DraftOnlyWhileDrawing ==
    /\ currentRect # Null => (isDrawing /\ drawStart # Null)
    /\ isDrawing <=> drawStart # Null
    /\ \A i \in 1..Len(positions) : positions[i].id # TempId

\* A draft is on the surface next to a committed position.
C31_Witness ==
    /\ currentRect # Null
    /\ isDrawing
    /\ Len(positions) > 0

\* Installing images over a list that was drawn: uploads and conversions
\* that succeed, Reset, and drawing with plain primary presses on AppPts.
NextInstall ==
    \/ \E f \in ImageFiles : ImageUploadRaster(f)
    \/ \E f \in PdfFiles : ImageUploadPdf(f)
    \/ \E f \in ImageFiles : ImageLoaded(f)
    \/ FormatSelect("PNG")
    \/ \E c \in conversions : ConvertDone(c)
    \/ Reset
    \/ Mounted /\ \E pt \in AppPts : MouseDown(pt, 0, FALSE)
    \/ Mounted /\ \E pt \in AppPts : MouseMove(pt)
    \/ Mounted /\ MouseUp
    \/ FlushPassiveEffects

SpecInstall == InitApp /\ [][NextInstall]_vars

\* C32: whenever the image shown changes (a raster upload or a PDF
\* conversion completes) or Reset runs, the committed list is empty
\* right after the step.
C32_NewImageEmptiesList ==
    [][ imageUrl' # imageUrl => positions' = << >> ]_vars

\* A position was committed in this run, and the surface shows an image
\* with an empty list.
C32_Witness ==
    /\ nextId > 1
    /\ Mounted
    /\ positions = << >>

\* C33: the completion of an overlay read changes the committed list of
\* that moment only in the overlayImage and overlayFileName of the
\* target position; what was committed, deleted or modified during the
\* read is neither lost nor restored.
C33_LoadEndUpdatesCurrentList ==
    [][ \A r \in readers, result \in {"data", "null"} :
            OverlayLoadEnd(r, result) =>
                positions' = MapId(positions, r.selectedPosition,
                                   [overlayImage |-> result,
                                    overlayFileName |-> r.fileName]) ]_vars

\* The pan gesture alone: the presses that pan (the middle button, the
\* primary button with Ctrl), moves, releases, leaves and Reset Pan, on
\* the points of PanPts.
NextPanGesture ==
    \/ \E pt \in PanPts, b \in {0, 1} : MouseDown(pt, b, TRUE)
    \/ \E pt \in PanPts : MouseMove(pt)
    \/ MouseUp
    \/ MouseLeave
    \/ ResetPan

SpecPanGesture == Init /\ [][NextPanGesture]_vars

\* A press at pt that starts a pan: the middle button, or the primary
\* button with Ctrl.
C34_PanPress(pt) ==
    \E b \in Buttons, c \in BOOLEAN :
        (b = 1 \/ (b = 0 /\ c)) /\ MouseDown(pt, b, c)

\* C34: the pan press leaves panOffset as it is and anchors the gesture
\* at the pointer minus panOffset; every pointer-move of the gesture sets
\* panOffset to the pointer minus that anchor, that is to the panOffset
\* of the press plus the displacement of the pointer since the press,
\* without a clamp; Reset Pan sets panOffset to (0, 0).
C34_PanFollowsPointer ==
    [][ /\ \A pt \in PanPts :
              /\ C34_PanPress(pt) =>
                     /\ panOffset' = panOffset
                     /\ panStart' = Some([x |-> pt.x - panOffset.x,
                                          y |-> pt.y - panOffset.y])
              /\ (panStart # Null /\ MouseMove(pt)) =>
                     panOffset' = [x |-> pt.x - panStart[1].x,
                                   y |-> pt.y - panStart[1].y]
        /\ ResetPan => panOffset' = [x |-> 0, y |-> 0]
        /\ panOffset' # panOffset =>
               (ResetPan \/ (panStart # Null /\ \E pt \in PanPts : MouseMove(pt))) ]_vars

\* A pan in progress has moved the image past its top-left edge.
C34_Witness ==
    /\ panStart # Null
    /\ panOffset.x < 0
    /\ panOffset.y < 0

\* ------------------------------------------------- placement on the screen
\* A mapping that forgets the pan offset.
getImageCoordinatesNoPan(c) ==
    [ x |-> (c.x * 1000) \div scale,
      y |-> (c.y * 1000) \div scale ]

\* The screen -> image mapping for a client point given in thousandths of
\* a pixel; getImageCoordinates(pt) is its value at the whole pixel pt.
getImageCoordinatesFine(c) ==
    [ x |-> ((c.x - Px(panOffset.x)) * 1000) \div scale,
      y |-> ((c.y - Px(panOffset.y)) * 1000) \div scale ]

\* The style renderPosition gives a stored box: left, top, width and
\* height are the stored numbers times scale, and the element is
\* translated by panOffset.
baseStyle(position) ==
    [ left |-> Times(position.x, scale),
      top |-> Times(position.y, scale),
      width |-> Times(position.width, scale),
      height |-> Times(position.height, scale),
      translate |-> panOffset ]

\* The container point (in thousandths of a pixel) at which the corner of
\* a box styled so is painted.
ContainerPoint(position) ==
    [ x |-> fl(baseStyle(position).left + Px(baseStyle(position).translate.x)),
      y |-> fl(baseStyle(position).top + Px(baseStyle(position).translate.y)) ]

\* Stored boxes of the placement specification, in thousandths: one drawn
\* at 100% from (5, 10) to (15, 30), one drawn at 110% from (15, 5) to
\* (25, 15), one drawn at 90% from (5, 10) to (20, 25).
PlacementBoxes ==
    { [x |-> Px(5), y |-> Px(10), width |-> Px(10), height |-> Px(20)],
      [x |-> 13636, y |-> 4545, width |-> 9091, height |-> 9091],
      [x |-> 5555, y |-> 11111, width |-> 16667, height |-> 16666] }

\* The surface with one committed box drawn before.
InitPlacement ==
    /\ \E b \in PlacementBoxes, s \in ShapeType :
           positions = << NewPosition(1, b, s) >>
    /\ nextId = 2
    /\ imageUrl = "a.png"
    /\ imageDimensions = "a.png"
    /\ scale = 1000
    /\ panStart = Null
    /\ panOffset = [x |-> 0, y |-> 0]
    /\ isDrawing = FALSE
    /\ drawStart = Null
    /\ currentRect = Null
    /\ selectedPosition = 0
    /\ selectedShape = "RECTANGLE"
    /\ isSelectingFileNamePosition = FALSE
    /\ pendingFileNameLinkId = 0
    /\ readers = {}
    /\ downTarget = 0
    /\ clickPending = 0
    /\ showFormatModal = FALSE
    /\ pendingPdfFile = "null"
    /\ isConverting = FALSE
    /\ imageReads = {}
    /\ conversions = {}
    /\ alertMessage = "null"
    /\ coordinateOrigin = "TOP_LEFT"
    /\ databaseFormat = << >>
    /\ keydownListeners = { [selectedPosition |-> 0, positions |-> positions] }

\* A zoom control is used while it moves scale away from 100% and scale
\* is within MaxZoom steps of it; Reset Zoom returns.
ZoomAway ==
    \/ scale >= 1000 /\ scale < 1000 + 100 * MaxZoom /\ (Wheel(FALSE) \/ ZoomIn)
    \/ scale <= 1000 /\ scale > 1000 - 100 * MaxZoom /\ (Wheel(TRUE) \/ ZoomOut)

\* Zooming and panning (with the middle button) under a stored box.
NextPlacement ==
    \/ \E pt \in PanPts : MouseDown(pt, 1, FALSE)
    \/ \E pt \in PanPts : MouseMove(pt)
    \/ MouseUp
    \/ ZoomAway
    \/ ResetZoom
    \/ ResetPan

SpecPlacement == InitPlacement /\ [][NextPlacement]_vars

\* The two points of the specification that draws under a zoom: a drag
\* of 5 screen pixels.
ZoomPts == { [x |-> 5, y |-> 5], [x |-> 10, y |-> 10] }

\* Drawing under a zoom: presses, moves and releases of the primary
\* button on the points of ZoomPts, and the zoom controls; the wheel and
\* the zoom buttons may act in the middle of a gesture, Reset Zoom is
\* pressed between gestures.
NextZoomDraw ==
    \/ \E pt \in ZoomPts : MouseDown(pt, 0, FALSE)
    \/ \E pt \in ZoomPts : MouseMove(pt)
    \/ MouseUp
    \/ ZoomAway
    \/ ~isDrawing /\ ResetZoom

SpecZoomDraw == Init /\ [][NextZoomDraw]_vars

\* ------------------------------------------------------ the positions table
\* img.naturalWidth and img.naturalHeight of the element showing url, which
\* the surface's image-load effect stores as its own imageDimensions: the
\* size of a raster file, and for a converted PDF the size of the canvas,
\* the page at scale 2.
naturalDimensions(url) ==
    IF url \in {"doc.png", "doc.jpg"}
    THEN [width |-> 2 * Dims("doc.pdf").width, height |-> 2 * Dims("doc.pdf").height]
    ELSE Dims(url)

\* transformCoordinate of the surface: the App's formulas on the surface's
\* own imageDimensions.
transformCoordinateOfSurface(x, y) ==
    IF imageUrl = "null" THEN [x |-> x, y |-> y]
    ELSE LET imgW == naturalDimensions(imageUrl).width
             imgH == naturalDimensions(imageUrl).height
         IN  CASE coordinateOrigin = "TOP_LEFT" -> [x |-> x, y |-> y]
               [] coordinateOrigin = "TOP_RIGHT" -> [x |-> fl(imgW - x), y |-> y]
               [] coordinateOrigin = "BOTTOM_LEFT" -> [x |-> x, y |-> fl(imgH - y)]
               [] coordinateOrigin = "BOTTOM_RIGHT" ->
                      [x |-> fl(imgW - x), y |-> fl(imgH - y)]
               [] coordinateOrigin = "CENTER" ->
                      [x |-> fl(x - imgW \div 2), y |-> fl(y - imgH \div 2)]
               [] OTHER -> [x |-> x, y |-> y]

\* The points a row of the positions table shows, without their labels.
cornerPoints(pos) ==
    CASE pos.shape = "RECTANGLE" ->
           LET tl == transformCoordinateOfSurface(pos.x, pos.y)
               br == transformCoordinateOfSurface(fl(pos.x + pos.width),
                                                  fl(pos.y + pos.height))
           IN  << RoundedPoint(tl), RoundedPoint(br) >>
      [] pos.shape = "CIRCLE" ->
           LET rawCenterX == fl(pos.x + pos.width \div 2)
               rawCenterY == fl(pos.y + pos.height \div 2)
               center == transformCoordinateOfSurface(rawCenterX, rawCenterY)
               radius == MathRound(Max(pos.width, pos.height) \div 2)
           IN  << RoundedPoint(center), [x |-> radius, y |-> 0] >>
      [] pos.shape = "TRAPEZOID" ->
           LET topWidth == Times(pos.width, 800)
               topOffset == fl(pos.width - topWidth) \div 2
               tl == transformCoordinateOfSurface(fl(pos.x + topOffset), pos.y)
               br == transformCoordinateOfSurface(fl(pos.x + pos.width),
                                                  fl(pos.y + pos.height))
           IN  << RoundedPoint(tl), RoundedPoint(br) >>
      [] OTHER -> << >>

\* The image shown and the imageDimensions the App holds for it: a raster
\* upload, or the first page of a PDF converted to either format.
TableSources ==
    { [imageUrl |-> f, imageDimensions |-> f] : f \in ImageFiles }
        \cup { [imageUrl |-> PdfImage(f, format), imageDimensions |-> f]
               : f \in PdfFiles, format \in ImageFormat }

\* The surface on a raster image or a converted PDF, its image element
\* loaded, with a committed list drawn before.
InitTable ==
    /\ \E l \in ExportLists :
           positions = [ i \in 1..Len(l) |-> [l[i] EXCEPT !.id = i] ]
    /\ nextId = Len(positions) + 1
    /\ \E src \in TableSources :
           imageUrl = src.imageUrl /\ imageDimensions = src.imageDimensions
    /\ scale = 1000
    /\ panStart = Null
    /\ panOffset = [x |-> 0, y |-> 0]
    /\ isDrawing = FALSE
    /\ drawStart = Null
    /\ currentRect = Null
    /\ selectedPosition = 0
    /\ selectedShape = "RECTANGLE"
    /\ isSelectingFileNamePosition = FALSE
    /\ pendingFileNameLinkId = 0
    /\ readers = {}
    /\ downTarget = 0
    /\ clickPending = 0
    /\ showFormatModal = FALSE
    /\ pendingPdfFile = "null"
    /\ isConverting = FALSE
    /\ imageReads = {}
    /\ conversions = {}
    /\ alertMessage = "null"
    /\ coordinateOrigin = "TOP_LEFT"
    /\ databaseFormat = << >>
    /\ keydownListeners = { [selectedPosition |-> 0, positions |-> positions] }

\* The table and the export in every origin.
NextTable ==
    \/ \E origin \in CoordinateOrigin : CoordinateOriginChange(origin)
    \/ handleSavePositions

SpecTable == InitTable /\ [][NextTable]_vars

\* ------------------------------------------------------------ C35 .. C40
\* The stored corner of a box.
C35_Stored(pos) == [x |-> pos.x, y |-> pos.y]

\* The stored corner mapped to the screen and back.
C35_RoundTrip(pos) == getImageCoordinatesFine(ContainerPoint(pos))

\* The products by scale are whole counts of thousandths that the numbers
\* hold: placing the box rounds nothing.
C35_NothingRounded(pos) ==
    /\ (pos.x * scale) % 1000 = 0
    /\ (pos.y * scale) % 1000 = 0
    /\ ContainerPoint(pos) =
           [x |-> (pos.x * scale) \div 1000 + Px(panOffset.x),
            y |-> (pos.y * scale) \div 1000 + Px(panOffset.y)]

\* C35 (as stated): at every scale and pan offset the container point of
\* a stored corner maps back through getImageCoordinates to exactly the
\* stored corner.
C35_PlacementInverseExact ==
    \A i \in 1..Len(positions) :
        C35_RoundTrip(positions[i]) = C35_Stored(positions[i])

\* C35 (amended): at every scale and pan offset a stored corner (x, y) is
\* painted at (x * scale + panOffset.x, y * scale + panOffset.y) to the
\* nearest number kept, and that point maps back to (x, y) to within the
\* rounding of the product and of the quotient by scale; it maps back
\* exactly when placing the box rounded nothing.
C35_PlacementInverseWithinRounding ==
    \A i \in 1..Len(positions) :
        LET pos == positions[i]
            c == ContainerPoint(pos)
            q == C35_RoundTrip(pos)
            u == Ulp(Max(Abs(c.x), Abs(c.y)))
        IN  /\ Abs(c.x * 1000 - (pos.x * scale + Px(Px(panOffset.x)))) <= 500 * u
            /\ Abs(c.y * 1000 - (pos.y * scale + Px(Px(panOffset.y)))) <= 500 * u
            /\ Abs(q.x - pos.x) * scale <= scale + 500 * u
            /\ Abs(q.y - pos.y) * scale <= scale + 500 * u
            /\ C35_NothingRounded(pos) => q = C35_Stored(pos)

\* A box with a fractional corner, under a zoom other than 100% and a pan
\* offset other than (0, 0), whose corner comes back exactly.
C35_Witness ==
    /\ scale # 1000
    /\ panOffset.x # 0 /\ panOffset.y # 0
    /\ \E i \in 1..Len(positions) :
           /\ positions[i].x % 1000 # 0
           /\ ContainerPoint(positions[i]) # C35_Stored(positions[i])
           /\ C35_RoundTrip(positions[i]) = C35_Stored(positions[i])

\* C36: in every origin, for raster and for PDF sources, the points the
\* positions table shows for a position are the points the export emits
\* for it.
C36_TableEqualsExport ==
    \A i \in 1..Len(positions) :
        cornerPoints(positions[i]) = coordinates(positions[i])

\* C36 restricted to raster sources.
C36_TableEqualsExportRaster ==
    imageUrl \in ImageFiles =>
        \A i \in 1..Len(positions) :
            cornerPoints(positions[i]) = coordinates(positions[i])

\* C37: the selection is null or the id of a committed position.
C37_SelectionIsCommitted ==
    selectedPosition = 0 \/ selectedPosition \in Ids(positions)

\* C38: every committed position that shows its file name has an overlay
\* image, and every committed position that does not show it has no link
\* target.
C38_FileNameFieldsConsistent ==
    \A i \in 1..Len(positions) :
        /\ positions[i].showFileName => positions[i].overlayImage # "null"
        /\ ~positions[i].showFileName => positions[i].fileNamePositionId = 0

\* The second half of C38 alone.
C38_NoTargetWithoutFileName ==
    \A i \in 1..Len(positions) :
        ~positions[i].showFileName => positions[i].fileNamePositionId = 0

\* The fields of a position that choosing a link target may not change.
C39_Kept(p) ==
    [ id |-> p.id, x |-> p.x, y |-> p.y, width |-> p.width, height |-> p.height,
      shape |-> p.shape, overlayImage |-> p.overlayImage,
      overlayFileName |-> p.overlayFileName ]

\* The list differs from what it was at most in showFileName and
\* fileNamePositionId of the position with the given id.
C39_OnlyLinkOf(id) ==
    /\ Len(positions') = Len(positions)
    /\ \A i \in 1..Len(positions) :
           IF positions[i].id = id
           THEN C39_Kept(positions'[i]) = C39_Kept(positions[i])
           ELSE positions'[i] = positions[i]

\* A step of choosing the link target: the primary press on a rendered
\* position, or the click that follows.
C39_ChoiceStep ==
    \/ PositionClick
    \/ \E pt \in PanPts : ElementsAt(pt) # {} /\ MouseDown(pt, 0, FALSE)

\* C39: during link target selection with the pending source P selected,
\* the press and the click on a position change nothing but
\* P.showFileName and P.fileNamePositionId, and the selection stays P.
C39_ChoiceChangesOnlyLink ==
    [][ ( /\ isSelectingFileNamePosition
          /\ pendingFileNameLinkId # 0
          /\ selectedPosition = pendingFileNameLinkId
          /\ C39_ChoiceStep )
            => /\ C39_OnlyLinkOf(pendingFileNameLinkId)
               /\ selectedPosition' = selectedPosition ]_vars

\* C39 for the list alone, the selection left out.
C39_ChoiceChangesOnlyLinkInList ==
    [][ ( /\ isSelectingFileNamePosition
          /\ pendingFileNameLinkId # 0
          /\ C39_ChoiceStep )
            => C39_OnlyLinkOf(pendingFileNameLinkId) ]_vars

\* C40: every committed position is wider and higher than 5 image units,
\* at whatever zoom it was drawn.
C40_CommittedAreMeaningful ==
    \A i \in 1..Len(positions) :
        positions[i].width > Px(5) /\ positions[i].height > Px(5)

\* A position drawn zoomed out by a drag of 5 screen pixels: 5.555 image
\* units wide and high.
C40_Witness ==
    /\ scale < 1000
    /\ \E i \in 1..Len(positions) :
           /\ positions[i].width < Px(6)
           /\ positions[i].height < Px(6)

====
